---- MODULE Spec2Model ----
(***************************************************************************)
(* Model of scripts/batch-transcribe.ts: the resumable batch transcription *)
(* loop, its progress ledger (_progress.json), the discovery of audio      *)
(* files and the artifacts written per transcribed file.                   *)
(*                                                                         *)
(* Names of directory entries are sequences of one-character strings, a    *)
(* path is the sequence of its segments below SOURCE_DIR (path.join        *)
(* appends a segment), and the source tree is the set of paths of its      *)
(* regular files.                                                          *)
(***************************************************************************)
EXTENDS Integers, Sequences, FiniteSets, TLC

\* ------------------------------------------------------------- bounds
\* Number of process runs explored.
MaxRuns == 2

\* Number of words in a response of the speech-to-text service.
MaxWords == 3
\* Largest end offset of a word.
MaxEnd == 3
\* Number of characters of a title after its run of plain characters.
MaxTail == 2
\* Number of characters by which a title's run of plain characters exceeds the cap.
MaxOver == 1

\* substring(0, 100) of the output base filename.
MaxNameLen == 100

\* ------------------------------------------------------------- helpers
Range(s) == {s[k] : k \in 1..Len(s)}

RECURSIVE SelectSeqBy(_, _)
\* Array.prototype.filter on a sequence, with the predicate given as a set.
SelectSeqBy(s, keep) ==
    IF s = <<>> THEN <<>>
    ELSE (IF Head(s) \in keep THEN <<Head(s)>> ELSE <<>>) \o SelectSeqBy(Tail(s), keep)

\* ------------------------------------------------------------- the source tree
DirT == <<"T">>
DirS == <<"S">>
FileX == <<DirT, <<"X", ".", "m", "p", "3">>>>
FileX2 == <<DirT, <<"X", "~", "2", ".", "m", "p", "3">>>>
FileY == <<<<"Y", ":", "1", ".", "M", "P", "3">>>>
FileZ == <<DirT, DirS, <<"Z", ".", "w", "a", "v">>>>
FileN == <<DirT, <<"n", ".", "t", "x", "t">>>>

\* The audio files that may exist below SOURCE_DIR, and a file that is no audio.
AudioUniverse == {FileX, FileX2, FileY, FileZ}
Universe == AudioUniverse \cup {FileN}
\* The files that come and go between runs.
Volatile == {FileZ}

\* The order in which readdirSync lists the entries of a directory.
NameOrder == <<FileY[1], DirT, FileX[2], FileX2[2], FileN[2], DirS, FileZ[3]>>

IsPrefix(p, q) == Len(p) <= Len(q) /\ SubSeq(q, 1, Len(p)) = p

\* fs.readdirSync(dir, { withFileTypes: true })
Entries(t, dir) ==
    SelectSeqBy(NameOrder, {n \in Range(NameOrder) : \E f \in t : IsPrefix(Append(dir, n), f)})

\* entry.isDirectory()
IsDirectory(t, full) == \E f \in t : IsPrefix(full, f) /\ Len(f) > Len(full)

\* ------------------------------------------------------------- names
Digits == {"0", "1", "2", "3", "4", "5", "6", "7", "8", "9"}

\* The i flag of the extension pattern, on the letters of the extensions.
Lower(c) ==
    CASE c = "M" -> "m" [] c = "P" -> "p" [] c = "W" -> "w"
      [] c = "A" -> "a" [] c = "V" -> "v" [] OTHER -> c

AudioExts == {<<"m", "p", "3">>, <<"m", "p", "4">>, <<"w", "a", "v">>, <<"m", "4", "a">>}

\* /\.(mp3|mp4|wav|m4a)$/i.test(name)
IsAudio(name) ==
    /\ Len(name) >= 4
    /\ name[Len(name) - 3] = "."
    /\ [k \in 1..3 |-> Lower(name[Len(name) - 3 + k])] \in AudioExts

\* name.replace(/\.(mp3|mp4|wav|m4a)$/i, '')
StripExt(name) == IF IsAudio(name) THEN SubSeq(name, 1, Len(name) - 4) ELSE name

RECURSIVE TrailingDigits(_)
\* Length of the longest suffix of digits.
TrailingDigits(s) ==
    IF s = <<>> \/ s[Len(s)] \notin Digits THEN 0
    ELSE 1 + TrailingDigits(SubSeq(s, 1, Len(s) - 1))

\* s.replace(/~\d+$/, '')
StripTilde(s) ==
    LET d == TrailingDigits(s)
    IN IF d >= 1 /\ Len(s) > d /\ s[Len(s) - d] = "~"
       THEN SubSeq(s, 1, Len(s) - d - 1)
       ELSE s

Title(name) == StripTilde(StripExt(name))

\* The fallback topic label of files directly under the root.
Fallback == <<"k", "l", "a", "l", "i">>

\* ------------------------------------------------------------- findAudioFiles
RECURSIVE WalkEntries(_, _, _, _)
\* The loop of findAudioFiles over the entries es of dir.
WalkEntries(t, dir, basePath, es) ==
    IF es = <<>> THEN <<>>
    ELSE LET full == Append(dir, Head(es))
             here == IF IsDirectory(t, full)
                     THEN WalkEntries(t, full, Head(es), Entries(t, full))
                     ELSE IF IsAudio(Head(es))
                          THEN <<[filePath |-> full,
                                  topic |-> IF basePath = <<>> THEN Fallback ELSE basePath,
                                  title |-> Title(Head(es))]>>
                          ELSE <<>>
         IN here \o WalkEntries(t, dir, basePath, Tail(es))

FindAudioFiles(t, dir, basePath) == WalkEntries(t, dir, basePath, Entries(t, dir))

\* ------------------------------------------------------------- output names
IllegalChars == {"<", ">", ":", "\"", "/", "\\", "|", "?", "*"}

\* Mutant: the pattern has no g flag, only the first match is replaced.
SafeName_FirstOnly(title) ==
    LET hits == {k \in 1..Len(title) : title[k] \in IllegalChars}
        r == [k \in 1..Len(title) |->
                IF k \in hits /\ \A h \in hits : k <= h THEN "_" ELSE title[k]]
    IN SubSeq(r, 1, IF Len(r) < MaxNameLen THEN Len(r) ELSE MaxNameLen)

\* title.replace(/[<>:"/\\|?*]/g, '_').substring(0, 100)
SafeName(title) ==
    LET r == [k \in 1..Len(title) |-> IF title[k] \in IllegalChars THEN "_" ELSE title[k]]
    IN SubSeq(r, 1, IF Len(r) < MaxNameLen THEN Len(r) ELSE MaxNameLen)

\* `${safeName}.json` and `${safeName}.txt`
JsonName(title) == Append(SafeName(title), ".json")
TxtName(title) == Append(SafeName(title), ".txt")

\* path.join(OUTPUT_DIR, file.topic, safeName), the base of both artifacts.
ArtifactKey(item) == <<item.topic, SafeName(item.title)>>

\* ------------------------------------------------------------- transcribeFile's result
\* w.end || 0, for a word of the response that has an end offset or has none.
EndOf(w) == IF w.hasEnd /\ w.end # 0 THEN w.end ELSE 0

\* (result.words || []).map(...): the words of a response with or without a list.
Words(raw) ==
    IF raw.hasWords THEN [k \in 1..Len(raw.words) |-> [end |-> EndOf(raw.words[k])]]
    ELSE <<>>

RECURSIVE MaxEndOf(_)
\* Math.max(...words.map(w => w.end)), of one word or more.
MaxEndOf(words) ==
    IF Len(words) = 1 THEN words[1].end
    ELSE LET m == MaxEndOf(Tail(words))
         IN IF words[1].end > m THEN words[1].end ELSE m

\* Mutant: the end of the last word is taken for the duration.
Duration_LastWord(words) == IF Len(words) > 0 THEN words[Len(words)].end ELSE 0

\* words.length > 0 ? Math.max(...) : 0
Duration(words) == IF Len(words) > 0 THEN MaxEndOf(words) ELSE 0

\* ------------------------------------------------------------- files on disk
Absent == [kind |-> "absent"]
\* A document whose write was cut short: a proper prefix of the JSON text.
Torn == [kind |-> "torn"]
LedgerDoc(p) == [kind |-> "json", completed |-> p.completed, failed |-> p.failed]
\* Mutant: the record names the file by its basename, not by its path.
JsonDoc_Basename(f) == [kind |-> "file", sourceFile |-> <<f[Len(f)]>>]
\* The transcript record written as JSON: sourceFile is file.filePath.
JsonDoc(f) == [kind |-> "file", sourceFile |-> f]
\* The text artifact: result.text of the transcription of f.
TxtDoc(f) == [kind |-> "file", textOf |-> f]

AllItems == Range(FindAudioFiles(Universe, <<>>, <<>>))
ArtifactKeys == {ArtifactKey(it) : it \in AllItems}

\* ------------------------------------------------------------- the ledger
EmptyProgress == [completed |-> <<>>, failed |-> <<>>]

\* Mutant: the ledger on disk is not read.
LoadProgress_Fresh(doc) == EmptyProgress

\* loadProgress, on a document JSON.parse accepts or on no document.
LoadProgress(doc) ==
    IF doc.kind = "json" THEN [completed |-> doc.completed, failed |-> doc.failed]
    ELSE EmptyProgress

\* Mutant: nothing is filtered out.
Remaining_NoFilter(files, p) == files

\* Mutant: files marked failed are filtered out too.
Remaining_SkipFailed(files, p) ==
    SelectSeqBy(files, {it \in Range(files) :
                          it.filePath \notin Range(p.completed) \cup Range(p.failed)})

\* audioFiles.filter(f => !progress.completed.includes(f.filePath))
Remaining(files, p) ==
    SelectSeqBy(files, {it \in Range(files) : it.filePath \notin Range(p.completed)})

\* Mutant: success does not remove the path from failed.
MarkSuccess_KeepFailed(p, f) == [completed |-> Append(p.completed, f), failed |-> p.failed]

\* The success branch's update of the ledger.
MarkSuccess(p, f) ==
    [completed |-> Append(p.completed, f),
     failed |-> SelectSeqBy(p.failed, Range(p.failed) \ {f})]

\* Mutant: the catch branch pushes the path without looking for it.
MarkFailure_Always(p, f) == [completed |-> p.completed, failed |-> Append(p.failed, f)]

\* Mutant: the catch branch starts the ledger over with the failed path.
MarkFailure_Clobber(p, f) == [completed |-> <<>>, failed |-> <<f>>]

\* The catch branch's update of the ledger.
MarkFailure(p, f) ==
    [completed |-> p.completed,
     failed |-> IF f \in Range(p.failed) THEN p.failed ELSE Append(p.failed, f)]

\* ------------------------------------------------------------- state
VARIABLES
    tree,          \* the regular files below SOURCE_DIR
    ledgerFile,    \* the document at PROGRESS_FILE
    jsonFiles,     \* the JSON artifacts, by ArtifactKey
    txtFiles,      \* the plain-text artifacts, by ArtifactKey
    apiKey,        \* whether ELEVENLABS_API_KEY is set in this process
    pc,            \* where main is
    audioFiles,    \* main's audioFiles
    progress,      \* main's progress
    remaining,     \* main's remaining
    i,             \* the loop index, from 1
    successCount,
    failCount,
    runs,          \* the processes started so far
    ledgerAtStart, \* the document at PROGRESS_FILE when this run started
    attempts,      \* this run's calls of transcribeFile, with their outcomes
    processed,     \* files whose transcription returned and whose two artifacts were written in full
    saves,         \* this run's completed calls of saveProgress
    probe          \* a pure function of the program under test: its input and its result

vars == <<tree, ledgerFile, jsonFiles, txtFiles, apiKey, pc, audioFiles,
          progress, remaining, i, successCount, failCount, runs, ledgerAtStart,
          attempts, processed, saves, probe>>

mainVars == <<tree, ledgerFile, jsonFiles, txtFiles, apiKey, pc, audioFiles,
              progress, remaining, i, successCount, failCount, runs, ledgerAtStart,
              attempts, processed, saves>>

disk == <<ledgerFile, jsonFiles, txtFiles>>
world == <<tree>>
locals == <<apiKey, audioFiles, remaining, ledgerAtStart, runs>>

\* No pure function is under test.
NoProbe == [op |-> "none"]

Stopped == {"idle", "done", "fatal", "killed"}
Running == {"request", "inflight", "writeJson", "writeTxt", "save", "pace", "summary"}

\* The exit status of a process that ended.
ExitCode == CASE pc = "done" -> 0 [] pc = "fatal" -> 1 [] OTHER -> -1

file == remaining[i]
key == ArtifactKey(file)

SetOutcome(o) == [attempts EXCEPT ![Len(attempts)].outcome = o]

InitMain ==
    /\ tree = Universe
    /\ ledgerFile = Absent
    /\ jsonFiles = [k \in ArtifactKeys |-> Absent]
    /\ txtFiles = [k \in ArtifactKeys |-> Absent]
    /\ apiKey = TRUE
    /\ pc = "idle"
    /\ audioFiles = <<>>
    /\ progress = EmptyProgress
    /\ remaining = <<>>
    /\ i = 1
    /\ successCount = 0
    /\ failCount = 0
    /\ runs = 0
    /\ ledgerAtStart = Absent
    /\ attempts = <<>>
    /\ processed = {}
    /\ saves = 0

Init == InitMain /\ probe = NoProbe

\* ------------------------------------------------------------- the environment
\* A file appears below SOURCE_DIR while no run is in progress.
AddFile(f) ==
    /\ pc \in Stopped
    /\ f \notin tree
    /\ tree' = tree \cup {f}
    /\ UNCHANGED <<disk, apiKey, pc, audioFiles, progress, remaining, i, successCount,
                   failCount, runs, ledgerAtStart, attempts, processed>>
    /\ UNCHANGED <<saves, probe>>

\* A file is deleted or moved away while no run is in progress.
RemoveFile(f) ==
    /\ pc \in Stopped
    /\ f \in tree
    /\ tree' = tree \ {f}
    /\ UNCHANGED <<disk, apiKey, pc, audioFiles, progress, remaining, i, successCount,
                   failCount, runs, ledgerAtStart, attempts, processed>>
    /\ UNCHANGED <<saves, probe>>

\* ------------------------------------------------------------- main
\* Mutant: a document that does not parse is taken for an empty ledger.
StartRun_SwallowsParseError(k) ==
    /\ pc \in Stopped
    /\ runs < MaxRuns
    /\ runs' = runs + 1
    /\ apiKey' = k
    /\ audioFiles' = FindAudioFiles(tree, <<>>, <<>>)
    /\ ledgerAtStart' = ledgerFile
    /\ attempts' = <<>>
    /\ i' = 1
    /\ successCount' = 0
    /\ failCount' = 0
    /\ progress' = LoadProgress(ledgerFile)
    /\ remaining' = Remaining(audioFiles', progress')
    /\ pc' = IF remaining' = <<>> THEN "done" ELSE "request"
    /\ saves' = 0
    /\ UNCHANGED <<world, disk, processed, probe>>

\* main up to the loop: discovery, loadProgress, the filter and the early return.
\* JSON.parse throws on a torn document and main().catch exits with 1.
StartRun(k) ==
    /\ pc \in Stopped
    /\ runs < MaxRuns
    /\ runs' = runs + 1
    /\ apiKey' = k
    /\ audioFiles' = FindAudioFiles(tree, <<>>, <<>>)
    /\ ledgerAtStart' = ledgerFile
    /\ attempts' = <<>>
    /\ i' = 1
    /\ successCount' = 0
    /\ failCount' = 0
    /\ IF ledgerFile.kind = "torn"
       THEN /\ pc' = "fatal"
            /\ progress' = EmptyProgress
            /\ remaining' = <<>>
       ELSE /\ progress' = LoadProgress(ledgerFile)
            /\ remaining' = Remaining(audioFiles', progress')
            /\ pc' = IF remaining' = <<>> THEN "done" ELSE "request"
    /\ saves' = 0
    /\ UNCHANGED <<world, disk, processed, probe>>

\* Mutant: the catch block does not count the failure.
Catch_NoCount ==
    /\ progress' = MarkFailure(progress, file.filePath)
    /\ failCount' = failCount
    /\ pc' = "save"

\* Mutant: the catch block throws again and main().catch ends the run.
Catch_Rethrows ==
    /\ progress' = MarkFailure(progress, file.filePath)
    /\ failCount' = failCount + 1
    /\ pc' = "fatal"

\* The catch block: the item is marked failed and the loop goes on to saveProgress.
Catch ==
    /\ progress' = MarkFailure(progress, file.filePath)
    /\ failCount' = failCount + 1
    /\ pc' = "save"

\* transcribeFile is called; without the key it throws before any request.
Request ==
    /\ pc = "request"
    /\ IF apiKey
       THEN /\ attempts' = Append(attempts, [filePath |-> file.filePath, outcome |-> "pending"])
            /\ pc' = "inflight"
            /\ UNCHANGED <<progress, failCount>>
       ELSE /\ attempts' = Append(attempts, [filePath |-> file.filePath, outcome |-> "err"])
            /\ Catch
    /\ UNCHANGED <<world, disk, locals, i, successCount, processed>>
    /\ UNCHANGED <<saves, probe>>

\* The request comes back with a transcript.
TranscribeReturns ==
    /\ pc = "inflight"
    /\ pc' = "writeJson"
    /\ UNCHANGED <<world, disk, locals, progress, i, successCount, failCount, attempts,
                   processed>>
    /\ UNCHANGED <<saves, probe>>

\* The request fails: a transport error, a timeout, a non-success status.
TranscribeThrows ==
    /\ pc = "inflight"
    /\ attempts' = SetOutcome("err")
    /\ Catch
    /\ UNCHANGED <<world, disk, locals, i, successCount, processed>>
    /\ UNCHANGED <<saves, probe>>

\* Mutant: the item is marked completed as soon as its JSON artifact is written.
WriteJson_MarksFirst ==
    /\ pc = "writeJson"
    /\ jsonFiles' = [jsonFiles EXCEPT ![key] = JsonDoc(file.filePath)]
    /\ progress' = MarkSuccess(progress, file.filePath)
    /\ pc' = "writeTxt"
    /\ UNCHANGED <<world, ledgerFile, txtFiles, locals, i, successCount, failCount,
                   attempts, processed>>
    /\ UNCHANGED <<saves, probe>>

\* mkdirSync of the topic directory and writeFileSync of the JSON artifact.
WriteJson ==
    /\ pc = "writeJson"
    /\ jsonFiles' = [jsonFiles EXCEPT ![key] = JsonDoc(file.filePath)]
    /\ pc' = "writeTxt"
    /\ UNCHANGED <<world, ledgerFile, txtFiles, locals, progress, i, successCount,
                   failCount, attempts, processed>>
    /\ UNCHANGED <<saves, probe>>

\* mkdirSync throws, or writeFileSync cannot open the file: nothing is written.
WriteJsonThrows ==
    /\ pc = "writeJson"
    /\ attempts' = SetOutcome("err")
    /\ Catch
    /\ UNCHANGED <<world, disk, locals, i, successCount, processed>>
    /\ UNCHANGED <<saves, probe>>

\* writeFileSync of the text artifact, then the success branch's bookkeeping.
WriteTxt ==
    /\ pc = "writeTxt"
    /\ txtFiles' = [txtFiles EXCEPT ![key] = TxtDoc(file.filePath)]
    /\ progress' = MarkSuccess(progress, file.filePath)
    /\ successCount' = successCount + 1
    /\ attempts' = SetOutcome("ok")
    /\ processed' = processed \cup {file.filePath}
    /\ pc' = "save"
    /\ UNCHANGED <<world, ledgerFile, jsonFiles, locals, i, failCount>>
    /\ UNCHANGED <<saves, probe>>

\* writeFileSync of the text artifact cannot open the file: nothing is written.
WriteTxtThrows ==
    /\ pc = "writeTxt"
    /\ attempts' = SetOutcome("err")
    /\ Catch
    /\ UNCHANGED <<world, disk, locals, i, successCount, processed>>
    /\ UNCHANGED <<saves, probe>>

\* What fs.writeFileSync(PROGRESS_FILE, ...) leaves when it runs to its end.
WrittenLedger(p) == LedgerDoc(p)

\* Mutant: the ledger is written once, after the last item.
SaveProgress_Batched ==
    /\ pc = "save"
    /\ ledgerFile' = IF i < Len(remaining) THEN ledgerFile ELSE WrittenLedger(progress)
    /\ saves' = saves + 1
    /\ pc' = IF i < Len(remaining) THEN "pace" ELSE "summary"
    /\ UNCHANGED <<world, jsonFiles, txtFiles, locals, progress, i, successCount,
                   failCount, attempts, processed, probe>>

\* Mutant: the loop goes on to the next item without the pause.
SaveProgress_NoPause ==
    /\ pc = "save"
    /\ ledgerFile' = WrittenLedger(progress)
    /\ saves' = saves + 1
    /\ pc' = IF i < Len(remaining) THEN "request" ELSE "summary"
    /\ i' = IF i < Len(remaining) THEN i + 1 ELSE i
    /\ UNCHANGED <<world, jsonFiles, txtFiles, locals, progress, successCount,
                   failCount, attempts, processed, probe>>

\* saveProgress, then the loop's test for the pause.
SaveProgress ==
    /\ pc = "save"
    /\ ledgerFile' = WrittenLedger(progress)
    /\ saves' = saves + 1
    /\ pc' = IF i < Len(remaining) THEN "pace" ELSE "summary"
    /\ UNCHANGED <<world, jsonFiles, txtFiles, locals, progress, i, successCount,
                   failCount, attempts, processed, probe>>

\* saveProgress throws, outside the try block: main().catch exits with 1.
SaveProgressThrows ==
    /\ pc = "save"
    /\ ledgerFile' \in {ledgerFile, Torn}
    /\ pc' = "fatal"
    /\ UNCHANGED <<world, jsonFiles, txtFiles, locals, progress, i, successCount,
                   failCount, attempts, processed>>
    /\ UNCHANGED <<saves, probe>>

\* sleep(2000) between two items.
Pace ==
    /\ pc = "pace"
    /\ i' = i + 1
    /\ pc' = "request"
    /\ UNCHANGED <<world, disk, locals, progress, successCount, failCount, attempts,
                   processed>>
    /\ UNCHANGED <<saves, probe>>

\* The summary is printed and main returns.
Summary ==
    /\ pc = "summary"
    /\ pc' = "done"
    /\ UNCHANGED <<world, disk, locals, progress, i, successCount, failCount, attempts,
                   processed>>
    /\ UNCHANGED <<saves, probe>>

\* The process is terminated from outside. writeFileSync opens its file with
\* truncation and then writes: a write in progress leaves the file as it was
\* (not yet opened) or torn.
Kill ==
    /\ pc \in Running
    /\ pc' = "killed"
    /\ ledgerFile' \in (IF pc = "save" THEN {ledgerFile, Torn} ELSE {ledgerFile})
    /\ \E d \in (IF pc = "writeJson" THEN {jsonFiles[key], Torn} ELSE {jsonFiles[key]}) :
           jsonFiles' = [jsonFiles EXCEPT ![key] = d]
    /\ \E d \in (IF pc = "writeTxt" THEN {txtFiles[key], Torn} ELSE {txtFiles[key]}) :
           txtFiles' = [txtFiles EXCEPT ![key] = d]
    /\ UNCHANGED <<world, locals, progress, i, successCount, failCount, attempts,
                   processed>>
    /\ UNCHANGED <<saves, probe>>

Next ==
    \/ \E f \in Volatile : AddFile(f)
    \/ \E f \in Volatile : RemoveFile(f)
    \/ \E k \in BOOLEAN : StartRun(k)
    \/ Request
    \/ TranscribeReturns
    \/ TranscribeThrows
    \/ WriteJson
    \/ WriteJsonThrows
    \/ WriteTxt
    \/ WriteTxtThrows
    \/ SaveProgress
    \/ SaveProgressThrows
    \/ Pace
    \/ Summary
    \/ Kill

Spec == Init /\ [][Next]_vars

\* ------------------------------------------------------------- runs left alone
\* The steps of a run: each follows from the program's own progress or from the
\* answer of the service.
RunStep ==
    \/ Request
    \/ TranscribeReturns
    \/ TranscribeThrows
    \/ WriteJson
    \/ WriteJsonThrows
    \/ WriteTxt
    \/ WriteTxtThrows
    \/ SaveProgress
    \/ Pace
    \/ Summary

\* Runs that are not terminated from outside and whose ledger writes succeed.
NextLive ==
    \/ \E f \in Volatile : AddFile(f)
    \/ \E f \in Volatile : RemoveFile(f)
    \/ \E k \in BOOLEAN : StartRun(k)
    \/ RunStep

\* Every call of the service returns or fails, and the program goes on.
SpecLive == Init /\ [][NextLive]_vars /\ WF_vars(RunStep)

\* ------------------------------------------------------------- the pure functions
\* The responses of the service: no word list, or a list of words of which each
\* has an end offset or none.
RawWords == [hasEnd : {TRUE}, end : 0..MaxEnd] \cup {[hasEnd |-> FALSE, end |-> 0]}
Responses ==
    {[hasWords |-> FALSE, words |-> <<>>]} \cup
    {[hasWords |-> TRUE, words |-> w] : w \in UNION {[1..n -> RawWords] : n \in 0..MaxWords}}

\* Titles: a run of plain characters, short or about the cap, and a tail.
Pad(n) == [k \in 1..n |-> "a"]
PadLens == (0..1) \cup ((MaxNameLen - 2)..(MaxNameLen + MaxOver))
Tails == UNION {[1..n -> IllegalChars \cup {"b"}] : n \in 0..MaxTail}
Titles == {Pad(n) \o t : n \in PadLens, t \in Tails}

InitPure ==
    /\ InitMain
    /\ probe \in {[op |-> "duration", done |-> FALSE, raw |-> r] : r \in Responses}
                 \cup {[op |-> "safeName", done |-> FALSE, title |-> t] : t \in Titles}

\* transcribeFile's normalisation of the response and its duration.
ApplyDuration ==
    /\ probe.op = "duration"
    /\ ~probe.done
    /\ probe' = [op |-> "duration", done |-> TRUE, raw |-> probe.raw,
                 words |-> Words(probe.raw), duration |-> Duration(Words(probe.raw))]
    /\ UNCHANGED mainVars

\* main's names of the two artifacts of a title.
ApplySafeName ==
    /\ probe.op = "safeName"
    /\ ~probe.done
    /\ probe' = [op |-> "safeName", done |-> TRUE, title |-> probe.title,
                 safeName |-> SafeName(probe.title),
                 jsonName |-> JsonName(probe.title), txtName |-> TxtName(probe.title)]
    /\ UNCHANGED mainVars

NextPure == ApplyDuration \/ ApplySafeName

SpecPure == InitPure /\ [][NextPure]_vars

\* ------------------------------------------------------------- derived views
Paths(files) == {it.filePath : it \in Range(files)}
Attempted == {attempts[k].filePath : k \in 1..Len(attempts)}
CompletedAtStart ==
    IF ledgerAtStart.kind = "json" THEN Range(ledgerAtStart.completed) ELSE {}
FailedAtStart ==
    IF ledgerAtStart.kind = "json" THEN Range(ledgerAtStart.failed) ELSE {}
ItemOf(f) == CHOOSE it \in AllItems : it.filePath = f
KeyOf(f) == ArtifactKey(ItemOf(f))
LastOutcome == attempts[Len(attempts)].outcome

\* ------------------------------------------------------------- C1
\* C1: a run calls transcribeFile only for discovered files that are not in the
\* completed list of the ledger it loaded; and a run that reaches its end has
\* called it for every discovered file that is not in that list, whether the
\* file is in failed or in neither list.
C1_ResumeCorrectness ==
    /\ \A f \in Attempted : f \in Paths(audioFiles) /\ f \notin CompletedAtStart
    /\ pc = "done" =>
         \A f \in Paths(audioFiles) : f \notin CompletedAtStart => f \in Attempted

\* A finished rerun that skipped a completed file and retried a failed one.
C1_Witness ==
    /\ pc = "done"
    /\ \E a \in CompletedAtStart \cap Paths(audioFiles) : a \notin Attempted
    /\ \E b \in FailedAtStart : b \in Attempted

\* ------------------------------------------------------------- C2
AllCompletedAtStart ==
    /\ ledgerAtStart.kind = "json"
    /\ Paths(audioFiles) \subseteq Range(ledgerAtStart.completed)

\* C2: a run that finds every discovered file in the completed list of the ledger
\* on disk makes no transcription call, returns at once and leaves the ledger
\* document as it was.
C2_Idempotence ==
    (pc # "idle" /\ AllCompletedAtStart) =>
        /\ attempts = <<>>
        /\ ledgerFile = ledgerAtStart
        /\ pc = "done"

\* The second run, after a first run that transcribed every file.
C2_Witness ==
    /\ runs = 2
    /\ pc = "done"
    /\ audioFiles # <<>>
    /\ AllCompletedAtStart
    /\ attempts = <<>>

\* ------------------------------------------------------------- C3
\* C3: no path is in both lists of a ledger document on disk; and once the ledger
\* is saved after an item succeeded, the document has the item in completed and
\* not in failed.
C3_SuccessClearsFailure ==
    /\ ledgerFile.kind = "json" =>
         Range(ledgerFile.completed) \cap Range(ledgerFile.failed) = {}
    /\ (pc \in {"pace", "summary"} /\ LastOutcome = "ok") =>
         /\ ledgerFile.kind = "json"
         /\ file.filePath \in Range(ledgerFile.completed)
         /\ file.filePath \notin Range(ledgerFile.failed)

\* An item that the loaded ledger had in failed succeeded and the ledger was saved.
C3_Witness ==
    /\ pc \in {"pace", "summary"}
    /\ LastOutcome = "ok"
    /\ file.filePath \in FailedAtStart
    /\ file.filePath \in Range(ledgerFile.completed)

\* ------------------------------------------------------------- C4
\* Whether the ledger document on disk records the outcome of an attempt.
Recorded(a) ==
    /\ ledgerFile.kind = "json"
    /\ \/ a.outcome = "ok" /\ a.filePath \in Range(ledgerFile.completed)
       \/ a.outcome = "err" /\ a.filePath \in Range(ledgerFile.failed)

Unrecorded == {k \in 1..Len(attempts) : ~Recorded(attempts[k])}

\* C4: wherever a run is terminated, at most one item of the run has been
\* attempted without its outcome being in the ledger document on disk.
C4_AtMostInFlightLost == pc = "killed" => Cardinality(Unrecorded) <= 1

\* What holds of the code instead: at every point of a run at most one outcome
\* is missing from the ledger document, as long as no write of it was cut short.
C4_UnlessTorn == ledgerFile.kind # "torn" => Cardinality(Unrecorded) <= 1

\* ------------------------------------------------------------- C5
\* C5: every path in the completed list of the ledger document on disk is of a
\* file whose transcription returned and whose JSON and text artifacts were both
\* written in full before; and the files a run skips are such files.
C5_CompletedWereProcessed ==
    /\ ledgerFile.kind = "json" => Range(ledgerFile.completed) \subseteq processed
    /\ pc \in Running \cup {"done"} =>
         Paths(audioFiles) \ Paths(remaining) \subseteq processed

\* A run started after a termination and skips a file the terminated run completed.
C5_Witness ==
    /\ runs = 2
    /\ pc \in Running
    /\ CompletedAtStart # {}
    /\ Paths(audioFiles) \ Paths(remaining) # {}
    /\ \E f \in Paths(remaining) : f \notin FailedAtStart

\* ------------------------------------------------------------- C6
\* C6: a termination while saveProgress is writing leaves at PROGRESS_FILE either
\* the document that was there or the document being saved.
C6_SaveIsAtomic ==
    [][(pc = "save" /\ pc' = "killed") =>
          ledgerFile' \in {ledgerFile, LedgerDoc(progress)}]_vars

\* ------------------------------------------------------------- C7
Membership(f, completed, failed) == <<f \in completed, f \in failed>>

\* C7: an item whose attempt threw is in failed and not in completed; an item that
\* succeeded stays in completed whatever fails after it; a path the run has not
\* finished an attempt of has the membership it had in the loaded ledger; and a
\* run that reaches its end has attempted every item of remaining, in order.
C7_PartialFailureIsolation ==
    pc # "idle" =>
      /\ \A k \in 1..Len(attempts) :
           LET a == attempts[k]
           IN /\ a.outcome = "err" =>
                   Membership(a.filePath, Range(progress.completed), Range(progress.failed))
                     = <<FALSE, TRUE>>
              /\ a.outcome = "ok" =>
                   Membership(a.filePath, Range(progress.completed), Range(progress.failed))
                     = <<TRUE, FALSE>>
      /\ \A g \in AudioUniverse :
           (\A k \in 1..Len(attempts) :
               attempts[k].filePath = g => attempts[k].outcome = "pending") =>
             Membership(g, Range(progress.completed), Range(progress.failed))
               = Membership(g, CompletedAtStart, FailedAtStart)
      /\ (pc = "done" /\ remaining # <<>>) =>
           [k \in 1..Len(attempts) |-> attempts[k].filePath]
             = [k \in 1..Len(remaining) |-> remaining[k].filePath]

\* A finished run in which an item threw and the next item was transcribed.
C7_Witness ==
    /\ pc = "done"
    /\ \E k \in 1..(Len(attempts) - 1) :
          attempts[k].outcome = "err" /\ attempts[k + 1].outcome = "ok"

\* ------------------------------------------------------------- C8
\* C8: a run without the API key that has items to transcribe leaves the ledger
\* document as it found it and does not end with exit status 0.
C8_MissingKeyAborts ==
    (pc # "idle" /\ ~apiKey /\ remaining # <<>>) =>
        /\ ledgerFile = ledgerAtStart
        /\ ExitCode # 0

\* ------------------------------------------------------------- C9
\* C9 as stated: after a run, every path in completed has at its topic and base
\* filename a JSON artifact whose sourceFile is that path, and the text artifact
\* of its transcription.
C9_OneRecordPerCompleted ==
    (pc = "done" /\ ledgerFile.kind = "json") =>
        \A f \in Range(ledgerFile.completed) :
            /\ jsonFiles[KeyOf(f)].kind = "file"
            /\ jsonFiles[KeyOf(f)].sourceFile = f
            /\ txtFiles[KeyOf(f)] = TxtDoc(f)

\* No other audio file has the topic and the base filename of f.
Unshared(f) == \A g \in AudioUniverse \ {f} : KeyOf(g) # KeyOf(f)

\* C9 amended: every path in completed has had a JSON artifact written at its
\* topic and base filename; when no other audio file has the same topic and base
\* filename, that artifact is whole, its sourceFile is the path, and the text
\* artifact beside it is the text of its transcription.
C9_OneRecordUnlessShared ==
    ledgerFile.kind = "json" =>
        \A f \in Range(ledgerFile.completed) :
            /\ jsonFiles[KeyOf(f)].kind # "absent"
            /\ Unshared(f) =>
                 /\ jsonFiles[KeyOf(f)].kind = "file"
                 /\ jsonFiles[KeyOf(f)].sourceFile = f
                 /\ txtFiles[KeyOf(f)] = TxtDoc(f)

\* A finished run whose ledger has a file of its own base filename and two files
\* that share one.
C9_Witness ==
    /\ pc = "done"
    /\ ledgerFile.kind = "json"
    /\ \E f \in Range(ledgerFile.completed) : Unshared(f)
    /\ \E f, g \in Range(ledgerFile.completed) : f # g /\ KeyOf(f) = KeyOf(g)

\* ------------------------------------------------------------- C10
\* C10: the topic of every discovered file is the name of the child directory of
\* the root it lies under, and the fallback label for a file in the root itself.
C10_TopicIsChildOfRoot ==
    \A it \in Range(audioFiles) :
        it.topic = IF Len(it.filePath) = 1 THEN Fallback ELSE it.filePath[1]

\* What findAudioFiles computes: the name of the directory the file is in.
C10_TopicIsParent ==
    \A it \in Range(audioFiles) :
        it.topic = IF Len(it.filePath) = 1 THEN Fallback
                   ELSE it.filePath[Len(it.filePath) - 1]

\* ------------------------------------------------------------- C11
\* C11: a run that finds a document at PROGRESS_FILE that does not parse ends
\* with exit status 1 without any call of transcribeFile and leaves the document
\* as it found it.
C11_MalformedLedgerIsFatal ==
    (pc # "idle" /\ ledgerAtStart.kind = "torn") =>
        /\ ExitCode = 1
        /\ attempts = <<>>
        /\ ledgerFile = ledgerAtStart

\* A run that found a torn ledger and files to transcribe.
C11_Witness ==
    /\ pc = "fatal"
    /\ ledgerAtStart.kind = "torn"
    /\ audioFiles # <<>>

\* ------------------------------------------------------------- C12
PersistedCompleted == IF ledgerFile.kind = "json" THEN Range(ledgerFile.completed) ELSE {}
PersistedFailed == IF ledgerFile.kind = "json" THEN Range(ledgerFile.failed) ELSE {}

\* A step that drops no path from completed, and from failed only a path that
\* it has in completed afterwards.
KeepsEntries ==
    /\ PersistedCompleted \subseteq PersistedCompleted'
    /\ PersistedFailed \subseteq PersistedFailed' \cup PersistedCompleted'

\* C12: no step removes a path from the completed list on disk, and a path
\* leaves the failed list on disk only by entering completed.
C12_NeverPruned == [][KeepsEntries]_vars

\* What holds of the code instead: C12 for every step that leaves a whole
\* document at PROGRESS_FILE, with files removed from the source tree or not.
C12_UnlessTorn == [][ledgerFile'.kind # "torn" => KeepsEntries]_vars

\* ------------------------------------------------------------- C13
\* C13: the calls of transcribeFile follow remaining, item by item; remaining is
\* in discovery order without repetition; only the last call can be in flight;
\* while the run lasts the outcome of every item before the current one is in the
\* ledger document on disk; and a run that reaches its end called transcribeFile
\* once per item.
C13_StrictlySequential ==
    /\ Len(attempts) <= Len(remaining)
    /\ \A k \in 1..Len(attempts) : attempts[k].filePath = remaining[k].filePath
    /\ \A k \in 1..(Len(attempts) - 1) : attempts[k].outcome # "pending"
    /\ (attempts # <<>> /\ LastOutcome = "pending") => pc \in {"inflight", "writeJson", "writeTxt", "killed"}
    /\ remaining = SelectSeqBy(audioFiles, Range(remaining))
    /\ Cardinality(Paths(remaining)) = Len(remaining)
    /\ pc \in Running =>
         /\ Len(attempts) \in {i - 1, i}
         /\ \A k \in 1..Len(attempts) : k < i => Recorded(attempts[k])
    /\ (pc = "done" /\ remaining # <<>>) => Len(attempts) = Len(remaining)

\* The request of the second item is in flight.
C13_Witness ==
    /\ pc = "inflight"
    /\ i = 2
    /\ Recorded(attempts[1])

\* ------------------------------------------------------------- C14
NoDuplicates(s) == \A a, b \in 1..Len(s) : s[a] = s[b] => a = b

\* C14: the failed list holds no path twice, in memory and on disk.
C14_FailedOnce ==
    /\ NoDuplicates(progress.failed)
    /\ ledgerFile.kind = "json" => NoDuplicates(ledgerFile.failed)

\* An item that the loaded ledger had in failed failed again and the ledger was saved.
C14_Witness ==
    /\ runs = 2
    /\ pc \in {"pace", "summary"}
    /\ LastOutcome = "err"
    /\ file.filePath \in FailedAtStart
    /\ file.filePath \in PersistedFailed

\* ------------------------------------------------------------- C15
\* C15: the pause is entered only from saveProgress, with the ledger document
\* written and items left; the call for every item after the first comes from
\* the pause; after saveProgress the run pauses exactly when items are left and
\* goes to the summary, without a pause, after the last item.
C15_Pacing ==
    [][/\ (pc' = "pace" /\ pc # "pace") =>
            /\ pc = "save"
            /\ ledgerFile' = LedgerDoc(progress)
            /\ i < Len(remaining)
       /\ (pc' = "request" /\ pc \in Running) => (pc = "pace" /\ i' = i + 1)
       /\ (pc = "pace" /\ pc' \in Running) => pc' = "request"
       /\ (pc = "save" /\ pc' \in Running) =>
            /\ pc' = "pace" <=> i < Len(remaining)
            /\ pc' = "summary" <=> i = Len(remaining)
       /\ (pc' = "summary" /\ pc # "summary") => pc = "save"]_vars

\* The run pauses after the outcome of an item was saved.
C15_Witness ==
    /\ pc = "pace"
    /\ Recorded(attempts[i])
    /\ i < Len(remaining)

\* ------------------------------------------------------------- C16
\* C16: at the summary of a run that had items, the two counters add up to the
\* number of items of remaining, successCount is the number of paths the run
\* added to completed and failCount the number of items of remaining in failed.
C16_FinalTallies ==
    (pc \in {"summary", "done"} /\ remaining # <<>>) =>
        /\ successCount + failCount = Len(remaining)
        /\ successCount = Cardinality(Range(progress.completed) \ CompletedAtStart)
        /\ failCount = Cardinality({k \in 1..Len(remaining) :
                                      remaining[k].filePath \in Range(progress.failed)})

\* A run reached its summary with successes and failures.
C16_Witness ==
    /\ pc = "summary"
    /\ successCount >= 1
    /\ failCount >= 1

\* ------------------------------------------------------------- C17
\* The end offset of a word of the response, a missing one counting as 0.
EndOrZero(w) == IF w.hasEnd THEN w.end ELSE 0

\* C17: the duration is 0 for a response with no word list or an empty one, and
\* otherwise an end offset of one of its words that no other word's exceeds.
C17_DurationIsMaxEnd ==
    (probe.op = "duration" /\ probe.done) =>
        LET ws == probe.raw.words
        IN IF ~probe.raw.hasWords \/ ws = <<>>
           THEN probe.duration = 0
           ELSE /\ \E k \in 1..Len(ws) : probe.duration = EndOrZero(ws[k])
                /\ \A k \in 1..Len(ws) : EndOrZero(ws[k]) <= probe.duration

\* The duration of three words of which the second ends last and the third has
\* no end offset.
C17_Witness ==
    /\ probe.op = "duration"
    /\ probe.done
    /\ probe.raw.hasWords
    /\ Len(probe.raw.words) = 3
    /\ probe.raw.words[2].end > probe.raw.words[1].end
    /\ ~probe.raw.words[3].hasEnd
    /\ probe.duration = probe.raw.words[2].end

\* ------------------------------------------------------------- C18
RECURSIVE WithoutIllegal(_)
\* A title with the characters that are illegal in file names taken out.
WithoutIllegal(t) ==
    IF t = <<>> THEN <<>>
    ELSE (IF Head(t) \in IllegalChars THEN <<>> ELSE <<Head(t)>>) \o WithoutIllegal(Tail(t))

Min(a, b) == IF a < b THEN a ELSE b

\* Both artifact names are the base filename and an extension.
SameBase ==
    /\ probe.jsonName = Append(probe.safeName, ".json")
    /\ probe.txtName = Append(probe.safeName, ".txt")

C19_CompletedOnce ==
    /\ NoDuplicates(progress.completed)
    /\ ledgerFile.kind = "json" => NoDuplicates(ledgerFile.completed)

\* A second run appended to a completed list that held a discovered file.
C19_Witness ==
    /\ runs = 2
    /\ pc \in {"pace", "summary"}
    /\ LastOutcome = "ok"
    /\ CompletedAtStart \cap Paths(audioFiles) # {}
    /\ Len(ledgerFile.completed) > Cardinality(CompletedAtStart)

\* ------------------------------------------------------------- C20
\* A finished run made one call and one ledger write per item of remaining and
\* left every item in exactly one of the two lists.
FinishedInFull ==
    (pc = "done" /\ remaining # <<>>) =>
        /\ Len(attempts) = Len(remaining)
        /\ saves = Len(remaining)
        /\ \A k \in 1..Len(remaining) :
              (remaining[k].filePath \in PersistedCompleted)
                # (remaining[k].filePath \in PersistedFailed)

\* C20: a run that is not terminated and whose ledger writes succeed ends, with
\* one call of transcribeFile and one ledger write per item of remaining and with
\* every item in exactly one of completed and failed.
C20_RunTerminates == ((pc \in Running) ~> (pc = "done")) /\ []FinishedInFull

\* A run of three items or more ended with successes and failures.
C20_Witness ==
    /\ pc = "done"
    /\ Len(remaining) >= 3
    /\ saves = Len(remaining)
    /\ successCount >= 1
    /\ failCount >= 1

====
